---- MODULE Spec2Model ----
(***************************************************************************)
(* A model of mapbox/shelf-pack-cpp (include/shelf-pack.hpp): the Bin      *)
(* record, the Shelf strip allocator and the ShelfPack packer with its     *)
(* public operations packOne, pack, resize and clear.                      *)
(*                                                                         *)
(* The pure operators below are transcriptions of the C++ member functions *)
(* over records; the actions apply them to the state of one ShelfPack      *)
(* object and record, in history variables, what the caller saw.           *)
(***************************************************************************)
EXTENDS Integers, Sequences, FiniteSets, TLC

(***************************************************************************)
(* Bounds of the model.                                                    *)
(***************************************************************************)
\* packOne and pack are only issued while both surface dimensions are at most
\* MaxDim; with the sizes below every int32_t of the program stays far from
\* its limits, so the arithmetic is that of the integers
MaxDim == 5
\* packOne and pack are only issued while they can leave at most MaxBins bins
\* placed since the last clear()
MaxBins == 3
\* at most MaxIds identifiers are drawn from the process-wide generator
MaxIds == 2

\* widths and heights requested through packOne
ReqWidths == {1, 2}
ReqHeights == {1, 2, 3}
\* dimensions passed to resize
ResizeWidths == {2, 4}
ResizeHeights == {2, 5}
\* dimensions the packer is constructed with (every smaller surface is
\* reached from it through pack's closing resize and clear)
InitDims == {<<2, 2>>}
\* the identifiers the caller supplies to packOne
CallerIds == {7}

(***************************************************************************)
(* Program constants.                                                      *)
(***************************************************************************)
INT32_MAX == 2147483647
DefaultDim == 64

Max(a, b) == IF a < b THEN b ELSE a

(***************************************************************************)
(* Bin                                                                     *)
(***************************************************************************)
\* Bin::getId with "return next++": the value before the increment is returned
getIdPostIncrement(nx) == nx

\* Bin::getId: pre-increment of the process-wide counter, a std::atomic<int32_t>
\* (which wraps around at INT32_MAX)
getId(nx) == IF nx = INT32_MAX THEN -INT32_MAX - 1 ELSE nx + 1

\* Bin::Bin: the record and the value of the id generator after construction
Bin(nx, id1, w1, h1, x1, y1) ==
    IF id1 = -1
    THEN [bin |-> [id |-> getId(nx), w |-> w1, h |-> h1, x |-> x1, y |-> y1],
          next |-> getId(nx)]
    ELSE [bin |-> [id |-> id1, w |-> w1, h |-> h1, x |-> x1, y |-> y1],
          next |-> nx]

(***************************************************************************)
(* Shelf                                                                   *)
(***************************************************************************)
\* Shelf::Shelf
Shelf(y, w, h) == [x_ |-> 0, y_ |-> y, w_ |-> w, h_ |-> h, wfree_ |-> w]

\* Shelf::alloc without "x_ += w": every bin of the shelf starts at the same x
ShelfAllocNoAdvance(s, nx, id, w, h) ==
    IF w > s.wfree_ \/ h > s.h_
    THEN [shelf |-> s, ret |-> <<>>, next |-> nx]
    ELSE LET b == Bin(nx, id, w, h, s.x_, s.y_)
         IN  [shelf |-> [s EXCEPT !.wfree_ = @ - w],
              ret   |-> <<b.bin>>,
              next  |-> b.next]

\* Shelf::alloc: ret is <<>> for nullopt and <<bin>> for a placement
ShelfAlloc(s, nx, id, w, h) ==
    IF w > s.wfree_ \/ h > s.h_
    THEN [shelf |-> s, ret |-> <<>>, next |-> nx]
    ELSE LET b == Bin(nx, id, w, h, s.x_, s.y_)
         IN  [shelf |-> [s EXCEPT !.x_ = @ + w, !.wfree_ = @ - w],
              ret   |-> <<b.bin>>,
              next  |-> b.next]

\* Shelf::resize without "wfree_ += (w - w_)"
ShelfResizeWidthOnly(s, w) == [s EXCEPT !.w_ = w]

\* Shelf::resize
ShelfResize(s, w) == [s EXCEPT !.wfree_ = @ + (w - s.w_), !.w_ = w]

(***************************************************************************)
(* ShelfPack                                                               *)
(***************************************************************************)
\* ShelfPack::ShelfPack
ShelfPack(w, h, auto) ==
    [width_      |-> IF w > 0 THEN w ELSE DefaultDim,
     height_     |-> IF h > 0 THEN h ELSE DefaultDim,
     autoResize_ |-> auto,
     shelves_    |-> <<>>,
     stats_      |-> <<>>]

\* count with "stats_[h] = 1" for "stats_[h]++"
countOnce(st, h) ==
    [k \in (DOMAIN st) \cup {h} |-> IF k = h THEN 1 ELSE st[k]]

\* ShelfPack::count: stats_[h]++ on a std::map (a missing key starts at 0)
count(st, h) ==
    IF h \in DOMAIN st
    THEN [st EXCEPT ![h] = @ + 1]
    ELSE [k \in (DOMAIN st) \cup {h} |-> IF k = h THEN 1 ELSE st[k]]

\* the loop of resize over shelves_: shelf.resize(width_) for every shelf
RECURSIVE resizeShelves(_, _)
resizeShelves(shelves, w) ==
    IF shelves = <<>> THEN <<>>
    ELSE <<ShelfResize(Head(shelves), w)>> \o resizeShelves(Tail(shelves), w)

\* resize without the loop over shelves_
resizeSurfaceOnly(sp, w, h) ==
    [sp  |-> [sp EXCEPT !.width_ = w, !.height_ = h],
     ret |-> TRUE]

\* ShelfPack::resize: the new object and the value returned
resize(sp, w, h) ==
    [sp  |-> [sp EXCEPT !.width_ = w,
                        !.height_ = h,
                        !.shelves_ = resizeShelves(sp.shelves_, w)],
     ret |-> TRUE]

\* clear without shelves_.clear()
clearStatsOnly(sp) == [sp EXCEPT !.stats_ = <<>>]

\* ShelfPack::clear
clear(sp) == [sp EXCEPT !.shelves_ = <<>>, !.stats_ = <<>>]

\* visit without the "exactly the right height" return: a shelf of the
\* requested height is passed over
visitNoExact(shelf, k, w, h, acc) ==
    LET y == acc.y + shelf.h_
    IN  IF h >= shelf.h_ \/ w > shelf.wfree_
        THEN [acc EXCEPT !.y = y]
        ELSE LET waste == shelf.h_ - h
             IN  IF waste < acc.waste
                 THEN [acc EXCEPT !.y = y, !.waste = waste, !.pshelf = k]
                 ELSE [acc EXCEPT !.y = y]

\* visit without "waste < best.waste": the first taller shelf with room is
\* kept, whatever the later ones would waste
visitFirstFit(shelf, k, w, h, acc) ==
    LET y == acc.y + shelf.h_
    IN  IF h = shelf.h_ /\ w <= shelf.wfree_
        THEN [acc EXCEPT !.y = y, !.exact = k]
        ELSE IF h > shelf.h_ \/ w > shelf.wfree_
        THEN [acc EXCEPT !.y = y]
        ELSE LET waste == shelf.h_ - h
             IN  IF acc.pshelf = 0
                 THEN [acc EXCEPT !.y = y, !.waste = waste, !.pshelf = k]
                 ELSE [acc EXCEPT !.y = y]

\* visit with "y = shelf.h()" for "y += shelf.h()": the heights are not summed
visitLastHeight(shelf, k, w, h, acc) ==
    LET y == shelf.h_
    IN  IF h = shelf.h_ /\ w <= shelf.wfree_
        THEN [acc EXCEPT !.y = y, !.exact = k]
        ELSE IF h > shelf.h_ \/ w > shelf.wfree_
        THEN [acc EXCEPT !.y = y]
        ELSE IF h < shelf.h_ /\ w <= shelf.wfree_
        THEN LET waste == shelf.h_ - h
             IN  IF waste < acc.waste
                 THEN [acc EXCEPT !.y = y, !.waste = waste, !.pshelf = k]
                 ELSE [acc EXCEPT !.y = y]
        ELSE [acc EXCEPT !.y = y]

\* visit without "y += shelf.h_": a new shelf is put at the top of the surface
visitKeepsY(shelf, k, w, h, acc) ==
    IF h = shelf.h_ /\ w <= shelf.wfree_
    THEN [acc EXCEPT !.exact = k]
    ELSE IF h > shelf.h_ \/ w > shelf.wfree_
    THEN acc
    ELSE IF h < shelf.h_ /\ w <= shelf.wfree_
    THEN LET waste == shelf.h_ - h
         IN  IF waste < acc.waste
             THEN [acc EXCEPT !.waste = waste, !.pshelf = k]
             ELSE acc
    ELSE acc

\* The body of the loop of packOne ("find the best shelf") for shelf k.  acc
\* carries the locals: y, best.pshelf as an index (0 for NULL), best.waste,
\* and as exact the index of the shelf the loop returned from (0: it has not).
visit(shelf, k, w, h, acc) ==
    LET y == acc.y + shelf.h_
    IN  IF h = shelf.h_ /\ w <= shelf.wfree_
        THEN [acc EXCEPT !.y = y, !.exact = k]
        ELSE IF h > shelf.h_ \/ w > shelf.wfree_
        THEN [acc EXCEPT !.y = y]
        ELSE IF h < shelf.h_ /\ w <= shelf.wfree_
        THEN LET waste == shelf.h_ - h
             IN  IF waste < acc.waste
                 THEN [acc EXCEPT !.y = y, !.waste = waste, !.pshelf = k]
                 ELSE [acc EXCEPT !.y = y]
        ELSE [acc EXCEPT !.y = y]

\* the loop of packOne over shelves_, from shelf k on
RECURSIVE scan(_, _, _, _, _)
scan(shelves, k, w, h, acc) ==
    IF k > Len(shelves) \/ acc.exact # 0 THEN acc
    ELSE scan(shelves, k + 1, w, h, visit(shelves[k], k, w, h, acc))

\* the locals of packOne before the loop
scan0 == [y |-> 0, pshelf |-> 0, waste |-> INT32_MAX, exact |-> 0]

\* count(h) followed by shelves_[k].alloc(id, w, h)
allocOn(sp, nx, k, id, w, h) ==
    LET a == ShelfAlloc(sp.shelves_[k], nx, id, w, h)
    IN  [sp   |-> [sp EXCEPT !.stats_ = count(sp.stats_, h),
                             !.shelves_ = [sp.shelves_ EXCEPT ![k] = a.shelf]],
         next |-> a.next,
         ret  |-> a.ret]

\* canAdd with "h < height_ - y": a shelf that would end at the bottom edge is refused
canAddStrict(sp, y, w, h) == h < (sp.height_ - y) /\ w <= sp.width_

\* canAdd with "w < width_": a request as wide as the surface is refused
canAddNarrower(sp, y, w, h) == h <= (sp.height_ - y) /\ w < sp.width_

\* "add shelf..": the test that a new shelf of height h at y takes the request
canAdd(sp, y, w, h) == h <= (sp.height_ - y) /\ w <= sp.width_

\* addShelf with the new shelf put below its own height
addShelfLate(sp, y, h) == [sp EXCEPT !.shelves_ = Append(@, Shelf(y + h, sp.width_, h))]

\* shelves_.emplace_back(y, width_, h)
addShelf(sp, y, h) == [sp EXCEPT !.shelves_ = Append(@, Shelf(y, sp.width_, h))]

\* grow with "w1 < h1" and "h1 <= w1": on a square surface the height grows first
growHeightFirst(w1, h1, w, h) ==
    [w2 |-> IF w1 < h1 \/ w > w1 THEN Max(w, w1) * 2 ELSE w1,
     h2 |-> IF h1 <= w1 \/ h > h1 THEN Max(h, h1) * 2 ELSE h1]

\* the dimensions one auto-resize round of packOne asks resize for
grow(w1, h1, w, h) ==
    [w2 |-> IF w1 <= h1 \/ w > w1 THEN Max(w, w1) * 2 ELSE w1,
     h2 |-> IF h1 < w1 \/ h > h1 THEN Max(h, h1) * 2 ELSE h1]

\* ShelfPack::packOne.  Returns the new object, the id generator, the value
\* returned (<<>> for nullopt) and, as sizes, the surface dimensions at entry
\* of every (recursive) invocation, outermost first.
RECURSIVE packOne(_, _, _, _, _)
packOne(sp, nx, id, w, h) ==
    LET sc == scan(sp.shelves_, 1, w, h, scan0)
        here == <<sp.width_, sp.height_>>
    IN  IF sc.exact # 0
        THEN allocOn(sp, nx, sc.exact, id, w, h) @@ [sizes |-> <<here>>]
        ELSE IF sc.pshelf # 0
        THEN allocOn(sp, nx, sc.pshelf, id, w, h) @@ [sizes |-> <<here>>]
        ELSE IF canAdd(sp, sc.y, w, h)
        THEN LET added == addShelf(sp, sc.y, h)
             IN  allocOn(added, nx, Len(added.shelves_), id, w, h)
                     @@ [sizes |-> <<here>>]
        ELSE IF sp.autoResize_
        THEN LET g == grow(sp.width_, sp.height_, w, h)
                 r == packOne(resize(sp, g.w2, g.h2).sp, nx, id, w, h)
             IN  [r EXCEPT !.sizes = <<here>> \o @]
        ELSE [sp |-> sp, next |-> nx, ret |-> <<>>, sizes |-> <<here>>]

\* minimal with "w2 = shelf.w() - shelf.wfree()": the width of the last shelf
\* wins, not the widest
RECURSIVE minimalLastShelf(_, _, _)
minimalLastShelf(shelves, k, acc) ==
    IF k > Len(shelves) THEN acc
    ELSE LET shelf == shelves[k]
         IN  minimalLastShelf(shelves, k + 1,
                              [h2 |-> acc.h2 + shelf.h_,
                               w2 |-> shelf.w_ - shelf.wfree_])

\* "Shrink the width/height of the sprite to the bare minimum": the loop of
\* pack over shelves_ from shelf k on; acc carries the locals w2 and h2.
RECURSIVE minimal(_, _, _)
minimal(shelves, k, acc) ==
    IF k > Len(shelves) THEN acc
    ELSE LET shelf == shelves[k]
         IN  minimal(shelves, k + 1,
                     [h2 |-> acc.h2 + shelf.h_,
                      w2 |-> Max(shelf.w_ - shelf.wfree_, acc.w2)])

\* the closing step of pack: resize to the bounds of the shelves, if any
shrink(sp) ==
    IF Len(sp.shelves_) # 0
    THEN LET m == minimal(sp.shelves_, 1, [w2 |-> 0, h2 |-> 0])
         IN  resize(sp, m.w2, m.h2).sp
    ELSE sp

\* wanted with the test of bin.w forgotten
wantedAnyWidth(bin) == bin.h # 0

\* if (bin.w && bin.h)
wanted(bin) == bin.w # 0 /\ bin.h # 0

\* writeBack with the test of options.inPlace forgotten
writeBackAlways(bins, i, a, inPlace) == [bins EXCEPT ![i].x = a.x, ![i].y = a.y]

\* if (options.inPlace) { bin.x = allocation->x; bin.y = allocation->y; }
writeBack(bins, i, a, inPlace) ==
    IF inPlace THEN [bins EXCEPT ![i].x = a.x, ![i].y = a.y] ELSE bins

\* the body of the loop of pack for bins[i], and the rest of the loop.  st
\* carries the object, the id generator, the caller's vector and results.
RECURSIVE packLoop(_, _, _)
packLoop(st, i, inPlace) ==
    IF i > Len(st.bins) THEN st
    ELSE LET bin == st.bins[i]
         IN  IF wanted(bin)
             THEN LET allocation == packOne(st.sp, st.next, bin.id, bin.w, bin.h)
                      st1 == [st EXCEPT !.sp = allocation.sp, !.next = allocation.next]
                  IN  IF allocation.ret = <<>>
                      THEN packLoop(st1, i + 1, inPlace)
                      ELSE LET a == allocation.ret[1]
                           IN  packLoop([st1 EXCEPT
                                           !.bins = writeBack(@, i, a, inPlace),
                                           !.results = Append(@, a)],
                                        i + 1, inPlace)
             ELSE packLoop(st, i + 1, inPlace)

\* ShelfPack::pack.  Returns the new object, the id generator, the caller's
\* vector after the call, the vector returned and, as grown, the object as the
\* loop over the bins left it (before the closing resize).
pack(sp, nx, bins, inPlace) ==
    LET st == packLoop([sp |-> sp, next |-> nx, bins |-> bins, results |-> <<>>],
                       1, inPlace)
    IN  [sp      |-> shrink(st.sp),
         next    |-> st.next,
         bins    |-> st.bins,
         results |-> st.results,
         grown   |-> st.sp]

(***************************************************************************)
(* State: one ShelfPack object, the process-wide id generator, and what    *)
(* the caller has seen.                                                    *)
(***************************************************************************)
VARIABLES
    sprite,     \* the ShelfPack object: width_, height_, autoResize_, shelves_, stats_
    next,       \* the static counter of Bin::getId
    placed,     \* history: the rectangles of the bins returned since the last clear()
    last,       \* history: the last public call, its arguments and what it returned
    made,       \* history: the width and height the constructor was called with
    issued,     \* history: the ids Bin::getId has generated
    held        \* the bins the caller has constructed and not yet handed to
                \* pack, in the order of construction

vars == <<sprite, next, placed, last, made, issued, held>>

\* the part of the object the claims compare across a call
Snapshot(sp) == [width |-> sp.width_, height |-> sp.height_,
                 shelves |-> sp.shelves_, stats |-> sp.stats_]

\* last before any call: op is the call ("Bin" for the constructor of Bin),
\* id/w/h its arguments (w/h also those of resize), input/output the caller's vector before and after pack, ret the
\* value returned (a sequence: <<>> is nullopt or an empty vector), sizes the
\* surface dimensions at entry of every invocation of packOne
NoCall == [op |-> "new", id |-> 0, w |-> 0, h |-> 0, inPlace |-> FALSE,
           input |-> <<>>, output |-> <<>>, ret |-> <<>>, sizes |-> <<>>]

\* the shapes <<w, h>> of the bins the caller constructs
BinShapes == {<<0, 1>>, <<1, 0>>, <<1, 1>>, <<1, 3>>}

\* the id arguments of a vector of n bins built as the tests build theirs,
\* bins.emplace_back(-1, w, h)
Generated(n) == [i \in 1..n |-> -1]

\* A vector built in one go: bin i is Bin(ids[i], w, h), which draws its id
\* from the generator where ids[i] is -1.  Returns the vector and the value
\* of the id generator after the constructions.
RECURSIVE BatchBins(_, _, _)
BatchBins(nx, ids, shapes) ==
    IF shapes = <<>> THEN [bins |-> <<>>, next |-> nx]
    ELSE LET b == Bin(nx, ids[1], shapes[1][1], shapes[1][2], -1, -1)
             rest == BatchBins(b.next, Tail(ids), Tail(shapes))
         IN  [bins |-> <<b.bin>> \o rest.bins, next |-> rest.next]

\* the rectangles of a sequence of bins
Rects(seq) ==
    {[x |-> seq[i].x, y |-> seq[i].y, w |-> seq[i].w, h |-> seq[i].h] : i \in DOMAIN seq}

Init ==
    /\ \E d \in InitDims, auto \in BOOLEAN :
          /\ sprite = ShelfPack(d[1], d[2], auto)
          /\ made = d
    /\ issued = {}
    /\ next = 0
    /\ placed = {}
    /\ last = NoCall
    /\ held = <<>>

WithinBounds == sprite.width_ <= MaxDim /\ sprite.height_ <= MaxDim

\* sprite.packOne(id, w, h); the caller lets the generator choose the id (-1)
\* while it has issued fewer than MaxIds, and supplies one afterwards
PackOne(id, w, h) ==
    /\ WithinBounds
    /\ Cardinality(placed) < MaxBins
    /\ id = -1 <=> next < MaxIds
    /\ LET r == packOne(sprite, next, id, w, h)
       IN  /\ sprite' = r.sp
           /\ next' = r.next
           /\ placed' = placed \cup Rects(r.ret)
           /\ last' = [NoCall EXCEPT !.op = "packOne", !.id = id, !.w = w, !.h = h,
                                     !.ret = r.ret, !.sizes = r.sizes]
           /\ issued' = issued \cup {r.ret[i].id : i \in {j \in DOMAIN r.ret : id = -1}}
    /\ UNCHANGED <<made, held>>

\* bins.emplace_back(-1, w, h): the public constructor Bin::Bin, called on
\* its own as the tests and the benchmark call it, while the generator has
\* issued fewer than MaxIds
NewBin(w, h) ==
    /\ next < MaxIds
    /\ LET b == Bin(next, -1, w, h, -1, -1)
       IN  /\ held' = Append(held, b.bin)
           /\ next' = b.next
           /\ issued' = issued \cup {b.bin.id}
           /\ last' = [NoCall EXCEPT !.op = "Bin", !.id = -1, !.w = w, !.h = h,
                                     !.ret = <<b.bin>>]
    /\ UNCHANGED <<sprite, placed, made>>

\* sprite.pack(bins, options) on a vector of the bins lo..hi the caller
\* holds (a vector is a run of bins in the order of their construction);
\* the caller lets the vector go after the call
Pack(lo, hi, inPlace) ==
    /\ WithinBounds
    /\ lo \in DOMAIN held /\ hi \in DOMAIN held /\ lo <= hi
    /\ Cardinality(placed) + (hi - lo + 1) <= MaxBins
    /\ LET input == SubSeq(held, lo, hi)
           r == pack(sprite, next, input, inPlace)
       IN  /\ sprite' = r.sp
           /\ next' = r.next
           /\ placed' = placed \cup Rects(r.results)
           /\ last' = [NoCall EXCEPT !.op = "pack", !.inPlace = inPlace,
                                     !.input = input, !.output = r.bins,
                                     !.ret = r.results]
           /\ held' = SubSeq(held, 1, lo - 1) \o SubSeq(held, hi + 1, Len(held))
    /\ UNCHANGED <<made, issued>>

\* sprite.resize(w, h)
Resize(w, h) ==
    /\ LET r == resize(sprite, w, h)
       IN  /\ sprite' = r.sp
           /\ last' = [NoCall EXCEPT !.op = "resize", !.w = w, !.h = h,
                                     !.ret = <<r.ret>>]
    /\ UNCHANGED <<next, placed, made, issued, held>>

\* sprite.clear()
Clear ==
    /\ sprite' = clear(sprite)
    /\ placed' = {}
    /\ last' = [NoCall EXCEPT !.op = "clear"]
    /\ UNCHANGED <<next, made, issued, held>>

Next ==
    \/ \E id \in {-1} \cup CallerIds, w \in ReqWidths, h \in ReqHeights : PackOne(id, w, h)
    \/ \E s \in BinShapes : NewBin(s[1], s[2])
    \/ \E lo \in 1..MaxIds, hi \in 1..MaxIds, inPlace \in BOOLEAN : Pack(lo, hi, inPlace)
    \/ \E w \in ResizeWidths, h \in ResizeHeights : Resize(w, h)
    \/ Clear

Spec == Init /\ [][Next]_vars

(***************************************************************************)
(* What the claims speak of, stated over the object before a call.         *)
(***************************************************************************)
Min(S) == CHOOSE m \in S : \A n \in S : m <= n

\* the used width of a shelf
Used(shelf) == shelf.w_ - shelf.wfree_

\* the sum of the heights of the shelves
RECURSIVE SumHeights(_)
SumHeights(shelves) ==
    IF shelves = <<>> THEN 0 ELSE Head(shelves).h_ + SumHeights(Tail(shelves))

\* the shelves of height exactly h with free width >= w
ExactFits(sp, w, h) ==
    {k \in DOMAIN sp.shelves_ : sp.shelves_[k].h_ = h /\ sp.shelves_[k].wfree_ >= w}

\* the shelves of height > h with free width >= w
TallerFits(sp, w, h) ==
    {k \in DOMAIN sp.shelves_ : sp.shelves_[k].h_ > h /\ sp.shelves_[k].wfree_ >= w}

\* a new shelf of height h for a request of width w fits the current bounds
NewShelfFits(sp, w, h) ==
    SumHeights(sp.shelves_) + h <= sp.height_ /\ w <= sp.width_

\* the call returned the bin w x h at (x, y)
Returned(call, x, y) ==
    /\ Len(call.ret) = 1
    /\ call.ret[1].x = x /\ call.ret[1].y = y
    /\ call.ret[1].w = call.w /\ call.ret[1].h = call.h

\* the call put its bin on shelf k of the object before, and did nothing else to the shelves
PlacedOnShelf(before, after, call, k) ==
    /\ Returned(call, Used(before.shelves_[k]), before.shelves_[k].y_)
    /\ Len(after.shelves_) = Len(before.shelves_)
    /\ \A j \in DOMAIN before.shelves_ :
          /\ after.shelves_[j].y_ = before.shelves_[j].y_
          /\ after.shelves_[j].h_ = before.shelves_[j].h_
          /\ after.shelves_[j].w_ = before.shelves_[j].w_
          /\ after.shelves_[j].wfree_ =
                before.shelves_[j].wfree_ - (IF j = k THEN call.w ELSE 0)
    /\ after.width_ = before.width_
    /\ after.height_ = before.height_

(***************************************************************************)
(* C1  resize(w, h) with w below the current width or h below the current  *)
(* height returns false and leaves width(), height() and every shelf as    *)
(* they were.  The code accepts the call: ResizeSmallerRejected is the     *)
(* claim, and is violated.                                                 *)
(***************************************************************************)
ResizeSmallerRejected ==
    [][(last'.op = "resize"
          /\ (last'.w < sprite.width_ \/ last'.h < sprite.height_))
        => (last'.ret = <<FALSE>> /\ Snapshot(sprite') = Snapshot(sprite))]_vars

(***************************************************************************)
(* C2  Every bin placed since the last clear() lies inside the current     *)
(* surface.  PlacedInsideSurface is the claim; it is violated once resize  *)
(* has accepted a smaller surface (C1).                                    *)
(***************************************************************************)
PlacedInsideSurface ==
    \A b \in placed :
        /\ b.x >= 0 /\ b.y >= 0
        /\ b.x + b.w <= sprite.width_
        /\ b.y + b.h <= sprite.height_

(***************************************************************************)
(* C3  If some shelf has height exactly h and free width >= w, packOne     *)
(* places the bin on the first such shelf in creation order, at that       *)
(* shelf's y and used width; no shelf is created, the surface keeps its    *)
(* size.                                                                   *)
(***************************************************************************)
ExactMatchFirst ==
    [][(last'.op = "packOne" /\ ExactFits(sprite, last'.w, last'.h) # {})
        => PlacedOnShelf(sprite, sprite', last',
                         Min(ExactFits(sprite, last'.w, last'.h)))]_vars

\* packOne has just put a bin on a shelf of exactly its height although an
\* earlier, taller shelf had (and still has) room for it
ExactMatchFirstWitness ==
    /\ last.op = "packOne" /\ Len(last.ret) = 1
    /\ \E k, j \in DOMAIN sprite.shelves_ :
          /\ j < k
          /\ sprite.shelves_[k].y_ = last.ret[1].y
          /\ sprite.shelves_[k].h_ = last.h
          /\ sprite.shelves_[k].x_ = last.ret[1].x + last.w
          /\ sprite.shelves_[j].h_ > last.h
          /\ sprite.shelves_[j].wfree_ >= last.w

(***************************************************************************)
(* C4  If no shelf of height exactly h has free width >= w but some taller *)
(* shelf has, packOne places the bin on the shelf that minimizes           *)
(* shelf.h - h among them, the earliest created of those that share the    *)
(* minimum.                                                                *)
(***************************************************************************)
BestFit(sp, w, h) ==
    LET F == TallerFits(sp, w, h)
        least == Min({sp.shelves_[k].h_ - h : k \in F})
    IN  Min({k \in F : sp.shelves_[k].h_ - h = least})

BestHeightFit ==
    [][(/\ last'.op = "packOne"
        /\ ExactFits(sprite, last'.w, last'.h) = {}
        /\ TallerFits(sprite, last'.w, last'.h) # {})
        => PlacedOnShelf(sprite, sprite', last',
                         BestFit(sprite, last'.w, last'.h))]_vars

\* packOne has just put a bin on a taller shelf that was created after
\* another taller shelf, which had (and still has) room for the bin but
\* would have wasted more height; the packer has a fixed size, and its
\* surface holds all the shelves and bins
BestHeightFitWitness ==
    /\ last.op = "packOne" /\ Len(last.ret) = 1 /\ Len(last.sizes) = 1
    /\ ~sprite.autoResize_
    /\ SumHeights(sprite.shelves_) <= sprite.height_
    /\ \A b \in placed : b.x + b.w <= sprite.width_ /\ b.y + b.h <= sprite.height_
    /\ \E j, k \in DOMAIN sprite.shelves_ :
          /\ j < k
          /\ sprite.shelves_[k].y_ = last.ret[1].y
          /\ sprite.shelves_[k].x_ = last.ret[1].x + last.w
          /\ sprite.shelves_[k].h_ > last.h
          /\ sprite.shelves_[j].h_ > sprite.shelves_[k].h_
          /\ sprite.shelves_[j].wfree_ >= last.w

\* packOne has just put a bin on a taller shelf while a later shelf of the
\* same height had (and still has) room for it: a tie, won by the earlier one
BestHeightFitTieWitness ==
    /\ last.op = "packOne" /\ Len(last.ret) = 1
    /\ \E k, j \in DOMAIN sprite.shelves_ :
          /\ k < j
          /\ sprite.shelves_[k].y_ = last.ret[1].y
          /\ sprite.shelves_[k].x_ = last.ret[1].x + last.w
          /\ sprite.shelves_[k].h_ > last.h
          /\ sprite.shelves_[j].h_ = sprite.shelves_[k].h_
          /\ sprite.shelves_[j].wfree_ >= last.w

(***************************************************************************)
(* C5  If no shelf has height >= h and free width >= w, and a new shelf    *)
(* fits (sum of shelf heights + h <= height(), w <= width()), packOne      *)
(* appends one shelf with y = sum of the shelf heights, height h and width *)
(* width(), and returns the bin at (0, y).                                 *)
(***************************************************************************)
NewShelfAtCumulativeY ==
    [][(/\ last'.op = "packOne"
        /\ ExactFits(sprite, last'.w, last'.h) = {}
        /\ TallerFits(sprite, last'.w, last'.h) = {}
        /\ NewShelfFits(sprite, last'.w, last'.h))
        => LET y == SumHeights(sprite.shelves_)
               n == Len(sprite.shelves_) + 1
           IN  /\ Returned(last', 0, y)
               /\ Len(sprite'.shelves_) = n
               /\ SubSeq(sprite'.shelves_, 1, n - 1) = sprite.shelves_
               /\ sprite'.shelves_[n].y_ = y
               /\ sprite'.shelves_[n].h_ = last'.h
               /\ sprite'.shelves_[n].w_ = sprite.width_
               /\ sprite'.shelves_[n].wfree_ = sprite.width_ - last'.w
               /\ sprite'.width_ = sprite.width_
               /\ sprite'.height_ = sprite.height_]_vars

\* packOne has just opened a second shelf for a taller request without any
\* growth: heights strictly increasing, the new shelf below the first
NewShelfAtCumulativeYWitness ==
    /\ last.op = "packOne" /\ Len(last.ret) = 1 /\ Len(last.sizes) = 1
    /\ Len(sprite.shelves_) = 2
    /\ sprite.shelves_[1].h_ < sprite.shelves_[2].h_
    /\ sprite.shelves_[2].y_ = sprite.shelves_[1].h_
    /\ last.ret[1].x = 0 /\ last.ret[1].y = sprite.shelves_[2].y_
    /\ last.h = sprite.shelves_[2].h_

(***************************************************************************)
(* C6  Without autoResize, packOne returns nullopt exactly when no shelf   *)
(* has height >= h with free width >= w and a new shelf does not fit; a    *)
(* failing packOne leaves shelves, width(), height() and the per-height    *)
(* counters unchanged.                                                     *)
(***************************************************************************)
NoSpaceExactly ==
    [][(last'.op = "packOne" /\ ~sprite.autoResize_)
        => /\ (last'.ret = <<>>) <=>
                 (/\ ExactFits(sprite, last'.w, last'.h) = {}
                  /\ TallerFits(sprite, last'.w, last'.h) = {}
                  /\ ~NewShelfFits(sprite, last'.w, last'.h))
           /\ (last'.ret = <<>>) => Snapshot(sprite') = Snapshot(sprite)]_vars

\* packOne has just failed on a packer that holds a shelf and is wide enough
\* for the request
NoSpaceExactlyWitness ==
    /\ ~sprite.autoResize_
    /\ last.op = "packOne" /\ last.ret = <<>>
    /\ Len(sprite.shelves_) > 0
    /\ last.w <= sprite.width_

(***************************************************************************)
(* C7  With autoResize, packOne(id, w, h) with w, h >= 1 returns a         *)
(* placement from every reachable state, and afterwards width() >= w and   *)
(* height() >= h.  AutoResizeAlwaysPlaces is the claim; every call returns *)
(* a placement, but on a surface that resize has made smaller than a shelf *)
(* (C1) the bin lands on that shelf and height() stays below h.            *)
(***************************************************************************)
AutoResizeAlwaysPlaces ==
    (sprite.autoResize_ /\ last.op = "packOne")
        => /\ Len(last.ret) = 1
           /\ sprite.width_ >= last.w
           /\ sprite.height_ >= last.h

(***************************************************************************)
(* C8  Each auto-resize round of packOne(id, w, h) on a surface (W, H)     *)
(* sets the width to 2*max(w, W) if W <= H or w > W and keeps it           *)
(* otherwise, and sets the height to 2*max(h, H) if H < W or h > H and     *)
(* keeps it otherwise: neither dimension decreases, one strictly           *)
(* increases, and on a square surface that holds the request only the      *)
(* width grows.  Five 10x10 requests on an auto-resizing Packer(10, 10)    *)
(* leave the sizes (10,10), (20,10), (20,20), (20,20), (40,20).            *)
(***************************************************************************)
\* the sizes of the surface after each of a sequence of packOne requests <<id, w, h>>
RECURSIVE SizesAfter(_, _, _)
SizesAfter(sp, nx, reqs) ==
    IF reqs = <<>> THEN <<>>
    ELSE LET r == packOne(sp, nx, reqs[1][1], reqs[1][2], reqs[1][3])
         IN  << <<r.sp.width_, r.sp.height_>> >> \o SizesAfter(r.sp, r.next, Tail(reqs))

GrowthRound(from, to, w, h) ==
    LET W == from[1]
        H == from[2]
    IN  /\ to[1] = (IF W <= H \/ w > W THEN 2 * Max(w, W) ELSE W)
        /\ to[2] = (IF H < W \/ h > H THEN 2 * Max(h, H) ELSE H)
        /\ to[1] >= W /\ to[2] >= H
        /\ to[1] > W \/ to[2] > H
        /\ (W = H /\ w <= W /\ h <= H) => (to[1] = 2 * W /\ to[2] = H)

GrowthRounds ==
    /\ last.op = "packOne" =>
          /\ Len(last.sizes) >= 1
          /\ Len(last.sizes) > 1 => sprite.autoResize_
          /\ \A k \in 1..(Len(last.sizes) - 1) :
                GrowthRound(last.sizes[k], last.sizes[k + 1], last.w, last.h)
          /\ last.sizes[Len(last.sizes)] = <<sprite.width_, sprite.height_>>
    /\ SizesAfter(ShelfPack(10, 10, TRUE), 0, [i \in 1..5 |-> <<-1, 10, 10>>])
          = << <<10, 10>>, <<20, 10>>, <<20, 20>>, <<20, 20>>, <<40, 20>> >>

\* packOne has just grown a square surface that held the request in both
\* dimensions, and placed the bin
GrowthRoundsWitness ==
    /\ last.op = "packOne" /\ Len(last.ret) = 1
    /\ Len(last.sizes) >= 2
    /\ last.sizes[1][1] = last.sizes[1][2]
    /\ last.w <= last.sizes[1][1] /\ last.h <= last.sizes[1][2]

(***************************************************************************)
(* C9  pack(bins) returns exactly the placements that packOne returns when *)
(* called on each input bin with nonzero w and h, in input order, from the *)
(* same starting state: zero-sized and failing bins are left out, later    *)
(* bins are still attempted, the order of the input is kept.               *)
(***************************************************************************)
NonZero(bin) == bin.w # 0 /\ bin.h # 0

\* what packOne returns for each of the bins in turn, failures left out
RECURSIVE EachPackOne(_, _, _)
EachPackOne(sp, nx, bins) ==
    IF bins = <<>> THEN <<>>
    ELSE LET r == packOne(sp, nx, bins[1].id, bins[1].w, bins[1].h)
         IN  r.ret \o EachPackOne(r.sp, r.next, Tail(bins))

PackIsPackOneInOrder ==
    [][last'.op = "pack"
        => last'.ret = EachPackOne(sprite, next, SelectSeq(last'.input, NonZero))]_vars

\* pack has just returned the second of two bins only, the first having
\* nonzero size and no room
PackIsPackOneInOrderWitness ==
    /\ last.op = "pack"
    /\ Len(last.input) = 2 /\ Len(last.ret) = 1
    /\ NonZero(last.input[1])
    /\ last.ret[1].id = last.input[2].id

(***************************************************************************)
(* C10  With inPlace, pack overwrites x and y of every placed input record *)
(* with the placement and leaves x and y of the others as they were        *)
(* (-1, -1 after construction); without inPlace it changes no input record; id, w and h of    *)
(* the inputs never change.                                                *)
(***************************************************************************)
\* the positions in ret of the placement of input record i (the inputs of a
\* batch carry distinct ids)
PlacementsOf(call, i) == {j \in DOMAIN call.ret : call.ret[j].id = call.input[i].id}

InPlaceWritesXY ==
    last.op = "pack" =>
        /\ Len(last.output) = Len(last.input)
        /\ \A i \in DOMAIN last.input :
              /\ last.output[i].id = last.input[i].id
              /\ last.output[i].w = last.input[i].w
              /\ last.output[i].h = last.input[i].h
              /\ IF last.inPlace /\ PlacementsOf(last, i) # {}
                 THEN \A j \in PlacementsOf(last, i) :
                         /\ last.output[i].x = last.ret[j].x
                         /\ last.output[i].y = last.ret[j].y
                 ELSE /\ last.output[i].x = last.input[i].x
                      /\ last.output[i].y = last.input[i].y

\* pack with inPlace has just placed one of two input records and not the other
InPlaceWritesXYWitness ==
    /\ last.op = "pack" /\ last.inPlace
    /\ Len(last.input) = 2 /\ Len(last.ret) = 1
    /\ \E i, k \in DOMAIN last.input :
          /\ PlacementsOf(last, i) # {}
          /\ last.output[i].x >= 0 /\ last.output[i].y >= 0
          /\ PlacementsOf(last, k) = {}
          /\ last.output[k].x = -1 /\ last.output[k].y = -1

(***************************************************************************)
(* C11  When pack() returns and at least one shelf exists, width() is the  *)
(* largest used width of a shelf and height() the sum of the shelf         *)
(* heights; with no shelf, width() and height() are as before the call.    *)
(* 10x10, 5x15, 25x15, 10x20 packed into an auto-resizing 10x10 packer     *)
(* end at 30x45.                                                           *)
(***************************************************************************)
\* the largest used width of the shelves
MaxUsed(shelves) ==
    CHOOSE m \in {Used(shelves[k]) : k \in DOMAIN shelves} :
        \A k \in DOMAIN shelves : Used(shelves[k]) <= m

\* the bins of testMinimalSize, which draw the ids 1..4 from the generator
MinimalSizeBins ==
    BatchBins(0, Generated(4), << <<10, 10>>, <<5, 15>>, <<25, 15>>, <<10, 20>> >>)

MinimalSizeEndsAt30x45 ==
    LET r == pack(ShelfPack(10, 10, TRUE), MinimalSizeBins.next, MinimalSizeBins.bins, FALSE)
    IN  /\ Snapshot(r.sp).width = 30 /\ Snapshot(r.sp).height = 45
        /\ Rects(r.results) =
              {[x |-> 0, y |-> 0, w |-> 10, h |-> 10], [x |-> 0, y |-> 10, w |-> 5, h |-> 15],
               [x |-> 5, y |-> 10, w |-> 25, h |-> 15], [x |-> 0, y |-> 25, w |-> 10, h |-> 20]}

PackEndsAtShelfBounds ==
    [][last'.op = "pack" =>
         /\ IF sprite'.shelves_ # <<>>
            THEN /\ sprite'.width_ = MaxUsed(sprite'.shelves_)
                 /\ sprite'.height_ = SumHeights(sprite'.shelves_)
            ELSE /\ sprite'.width_ = sprite.width_
                 /\ sprite'.height_ = sprite.height_
         /\ MinimalSizeEndsAt30x45]_vars

\* pack() has returned with two shelves, the first used wider than the
\* second, on a surface narrower and lower than the packer is allowed to be
PackEndsAtShelfBoundsWitness ==
    /\ last.op = "pack" /\ Len(last.ret) >= 1
    /\ Len(sprite.shelves_) = 2
    /\ Used(sprite.shelves_[1]) > Used(sprite.shelves_[2])
    /\ sprite.width_ = 2 /\ sprite.height_ = 4

\* pack() has returned with no shelf in the packer
PackWithoutShelfWitness ==
    last.op = "pack" /\ sprite.shelves_ = <<>> /\ last.ret = <<>>

(***************************************************************************)
(* C12  The adjustment at the end of pack() only reduces the surface:      *)
(* width() and height() after it are at most what they were when the last  *)
(* packOne of the batch had returned, and no placed bin moves.  The code   *)
(* resizes to the bounds of the shelves whatever the surface was: after    *)
(* resize has accepted a smaller surface (C1) the adjustment enlarges it.  *)
(* PackOnlyReduces is the claim, and is violated.                          *)
(***************************************************************************)
\* the packer after packOne has been called on each of the bins in turn
RECURSIVE AfterEachPackOne(_, _, _)
AfterEachPackOne(sp, nx, bins) ==
    IF bins = <<>> THEN sp
    ELSE LET r == packOne(sp, nx, bins[1].id, bins[1].w, bins[1].h)
         IN  AfterEachPackOne(r.sp, r.next, Tail(bins))

PackOnlyReduces ==
    [][last'.op = "pack" =>
         LET before == AfterEachPackOne(sprite, next, SelectSeq(last'.input, NonZero))
         IN  /\ sprite'.width_ <= before.width_
             /\ sprite'.height_ <= before.height_
             /\ placed \subseteq placed'
             /\ Len(sprite'.shelves_) = Len(before.shelves_)
             /\ \A k \in DOMAIN before.shelves_ :
                   /\ sprite'.shelves_[k].y_ = before.shelves_[k].y_
                   /\ sprite'.shelves_[k].h_ = before.shelves_[k].h_
                   /\ Used(sprite'.shelves_[k]) = Used(before.shelves_[k])]_vars

(***************************************************************************)
(* C13  For a packer constructed with (W, H, A): after any calls of        *)
(* packOne, pack and resize, clear() followed by requests that fit (W, H)  *)
(* gives the placements and failures of a fresh packer (W, H, A).  clear() *)
(* empties shelves_ and stats_ and keeps width_ and height_ as they are,   *)
(* so ClearRestoresOriginal, the claim, is violated once the surface has   *)
(* been resized; ClearKeepsCurrent is the claim for a fresh packer of the  *)
(* current dimensions.                                                     *)
(***************************************************************************)
\* the sequences of one or two requests <<w, h>> with w <= maxw and h <= maxh
Requests(maxw, maxh) ==
    LET shapes == {s \in ReqWidths \X ReqHeights : s[1] <= maxw /\ s[2] <= maxh}
    IN  UNION {[1..n -> shapes] : n \in {1, 2}}

\* what packOne returns for each of the requests in turn, on a packer sp
RECURSIVE Outcomes(_, _, _)
Outcomes(sp, nx, reqs) ==
    IF reqs = <<>> THEN <<>>
    ELSE LET r == packOne(sp, nx, -1, reqs[1][1], reqs[1][2])
         IN  <<r.ret>> \o Outcomes(r.sp, r.next, Tail(reqs))

\* the packers a and b answer the requests alike, issued one by one through
\* packOne or together through pack
SameOutcomes(a, b, nx, reqs) ==
    /\ Outcomes(a, nx, reqs) = Outcomes(b, nx, reqs)
    /\ LET v == BatchBins(nx, Generated(Len(reqs)), reqs)
       IN  pack(a, v.next, v.bins, FALSE).results = pack(b, v.next, v.bins, FALSE).results

ClearRestoresOriginal ==
    last.op = "clear" =>
        \A reqs \in Requests(made[1], made[2]) :
            SameOutcomes(sprite, ShelfPack(made[1], made[2], sprite.autoResize_),
                         next, reqs)

ClearKeepsCurrent ==
    last.op = "clear" =>
        \A reqs \in Requests(MaxDim, MaxDim) :
            SameOutcomes(sprite,
                         ShelfPack(sprite.width_, sprite.height_, sprite.autoResize_),
                         next, reqs)

\* clear() has returned on a packer that is not of the dimensions it was
\* constructed with, and which answers some requests that fit the original
\* dimensions differently from a fresh packer of those
ClearKeepsCurrentWitness ==
    /\ last.op = "clear"
    /\ <<sprite.width_, sprite.height_>> # made
    /\ sprite.shelves_ = <<>>
    /\ \E reqs \in Requests(made[1], made[2]) :
          ~SameOutcomes(sprite, ShelfPack(made[1], made[2], sprite.autoResize_),
                        next, reqs)

(***************************************************************************)
(* C14  resize(w, h) with w >= width() and h >= height() returns true,     *)
(* sets width() and height(), sets the width of every shelf to w and adds  *)
(* w minus its old width to its wfree, and changes no shelf's y, h or used *)
(* width; a request that failed before for lack of room and has room on    *)
(* the new surface is then placed at the next free position.               *)
(***************************************************************************)
\* the positions a bin w x h can be given on sp: the end of the used part
\* of a shelf at least h high with w free, or the start of a new shelf
FreePositions(sp, w, h) ==
    {<<Used(sp.shelves_[k]), sp.shelves_[k].y_>> : k \in ExactFits(sp, w, h)}
        \cup {<<Used(sp.shelves_[k]), sp.shelves_[k].y_>> : k \in TallerFits(sp, w, h)}
        \cup (IF NewShelfFits(sp, w, h) THEN {<<0, SumHeights(sp.shelves_)>>} ELSE {})

\* the bin returned for the request w x h, as <<x, y>>: the empty set if none
PlacedAt(ret) == {<<ret[i].x, ret[i].y>> : i \in DOMAIN ret}

ResizeLargerWidens ==
    [][(last'.op = "resize"
          /\ last'.w >= sprite.width_ /\ last'.h >= sprite.height_)
        => /\ last'.ret = <<TRUE>>
           /\ sprite'.width_ = last'.w /\ sprite'.height_ = last'.h
           /\ Len(sprite'.shelves_) = Len(sprite.shelves_)
           /\ \A k \in DOMAIN sprite.shelves_ :
                 /\ sprite'.shelves_[k].w_ = last'.w
                 /\ sprite'.shelves_[k].wfree_ =
                       sprite.shelves_[k].wfree_ + (last'.w - sprite.shelves_[k].w_)
                 /\ sprite'.shelves_[k].y_ = sprite.shelves_[k].y_
                 /\ sprite'.shelves_[k].h_ = sprite.shelves_[k].h_
                 /\ Used(sprite'.shelves_[k]) = Used(sprite.shelves_[k])
           /\ \A w \in ReqWidths, h \in ReqHeights :
                 (packOne(sprite, next, -1, w, h).ret = <<>>
                     /\ FreePositions(sprite', w, h) # {})
                 => /\ PlacedAt(packOne(sprite', next', -1, w, h).ret) # {}
                    /\ PlacedAt(packOne(sprite', next', -1, w, h).ret)
                          \subseteq FreePositions(sprite', w, h)]_vars

\* resize has returned true on a packer that does not resize itself, whose
\* full shelf of the original width 2 now has free width for another bin
ResizeLargerWidensWitness ==
    /\ last.op = "resize" /\ last.ret = <<TRUE>> /\ last.w = 4
    /\ ~sprite.autoResize_
    /\ \E k \in DOMAIN sprite.shelves_ :
          /\ Used(sprite.shelves_[k]) = made[1]
          /\ sprite.shelves_[k].w_ = 4 /\ sprite.shelves_[k].wfree_ = 2
          /\ PlacedAt(packOne(sprite, next, -1, 2, sprite.shelves_[k].h_).ret)
                = {<<2, sprite.shelves_[k].y_>>}

(***************************************************************************)
(* C15  The bin returned by packOne(id, w, h) carries the requested w and  *)
(* h and, when id is not -1, that id; when id is -1 it carries a generated *)
(* id greater than every id generated before, so that generated ids are    *)
(* pairwise distinct.                                                      *)
(***************************************************************************)
ReturnedBinCarriesRequest ==
    [][(last'.op = "packOne" /\ last'.ret # <<>>)
        => /\ Len(last'.ret) = 1
           /\ last'.ret[1].w = last'.w
           /\ last'.ret[1].h = last'.h
           /\ IF last'.id # -1
              THEN last'.ret[1].id = last'.id /\ issued' = issued
              ELSE /\ \A i \in issued : last'.ret[1].id > i
                   /\ issued' = issued \cup {last'.ret[1].id}
                   /\ Cardinality(issued') = Cardinality(issued) + 1]_vars

\* packOne has returned a bin with the second generated id
ReturnedBinCarriesRequestWitness ==
    /\ last.op = "packOne" /\ last.id = -1 /\ Len(last.ret) = 1
    /\ Cardinality(issued) = 2
    /\ last.ret[1].id \in issued

\* packOne has returned a bin with the id the caller supplied
SuppliedIdWitness ==
    /\ last.op = "packOne" /\ last.id \in CallerIds /\ Len(last.ret) = 1
    /\ last.ret[1].id = last.id

(***************************************************************************)
(* C16  On a shelf, each placement is at x = the sum of the widths of the  *)
(* bins placed on that shelf before it and at the shelf's y: the bins of a *)
(* shelf occupy x-ranges that do not overlap and increase in the order of  *)
(* placement, whatever resizes happen between placements.                  *)
(***************************************************************************)
\* the sum of the widths of a set of rectangles
RECURSIVE SumWidths(_)
SumWidths(rects) ==
    IF rects = {} THEN 0
    ELSE LET r == CHOOSE r \in rects : TRUE
         IN  r.w + SumWidths(rects \ {r})

\* the rectangles placed before the call, or by the call before its i-th
\* returned bin, at height y
PlacedBefore(before, ret, i, y) ==
    {c \in before \cup Rects(SubSeq(ret, 1, i - 1)) : c.y = y}

PlacementsAppendOnShelf ==
    [][last'.op \in {"packOne", "pack"} =>
         \A i \in DOMAIN last'.ret :
            /\ \E k \in DOMAIN sprite'.shelves_ :
                  /\ sprite'.shelves_[k].y_ = last'.ret[i].y
                  /\ last'.ret[i].h <= sprite'.shelves_[k].h_
            /\ last'.ret[i].x = SumWidths(PlacedBefore(placed, last'.ret, i, last'.ret[i].y))
            /\ \A c \in PlacedBefore(placed, last'.ret, i, last'.ret[i].y) :
                  c.x + c.w <= last'.ret[i].x]_vars

\* packOne has put a third bin on a shelf, on a surface that is no longer of
\* the width it was constructed with
PlacementsAppendOnShelfWitness ==
    /\ last.op = "packOne" /\ Len(last.ret) = 1
    /\ last.ret[1].x = 2
    /\ Cardinality({c \in placed : c.y = last.ret[1].y /\ c.x < 2}) = 2
    /\ sprite.width_ # made[1]

(***************************************************************************)
(* C17  For every shelf, wfree = w - (the sum of the widths of the bins    *)
(* placed on it) and 0 <= wfree <= w; Shelf::alloc fails and leaves the    *)
(* shelf as it is when the request is wider than wfree or higher than the  *)
(* shelf, and otherwise takes the requested width from wfree.  After       *)
(* resize has accepted a narrower surface (C1) wfree is negative:          *)
(* FreeWidthAccounted is the claim, and is violated.                       *)
(***************************************************************************)
FreeWidthAccounted ==
    \A k \in DOMAIN sprite.shelves_ :
        LET shelf == sprite.shelves_[k]
        IN  /\ shelf.wfree_ = shelf.w_ - SumWidths({c \in placed : c.y = shelf.y_})
            /\ 0 <= shelf.wfree_ /\ shelf.wfree_ <= shelf.w_
            /\ \A w \in ReqWidths, h \in ReqHeights :
                  LET a == ShelfAlloc(shelf, next, -1, w, h)
                  IN  IF w > shelf.wfree_ \/ h > shelf.h_
                      THEN a.ret = <<>> /\ a.shelf = shelf
                      ELSE a.ret # <<>> /\ a.shelf.wfree_ = shelf.wfree_ - w

(***************************************************************************)
(* C18  Across every step of packOne, pack and resize, the width of each   *)
(* existing shelf after the step is at least its width before: shelves     *)
(* never narrow.  The code narrows them in resize when asked for a smaller *)
(* width (C1) and in the closing resize of pack: ShelvesNeverNarrow is the *)
(* claim, and is violated.                                                 *)
(***************************************************************************)
ShelvesNeverNarrow ==
    [][last'.op \in {"packOne", "pack", "resize"} =>
         \A k \in DOMAIN sprite.shelves_ :
            /\ k \in DOMAIN sprite'.shelves_
            /\ sprite'.shelves_[k].w_ >= sprite.shelves_[k].w_]_vars

(***************************************************************************)
(* C19  In every reachable state every shelf is as wide as the surface:    *)
(* its w equals width(), when the shelf is created and after every resize, *)
(* auto-resize growth and closing resize of pack.                          *)
(***************************************************************************)
ShelvesSpanSurface ==
    \A k \in DOMAIN sprite.shelves_ : sprite.shelves_[k].w_ = sprite.width_

\* pack() has returned with two shelves on a surface narrower than the
\* packer was constructed with
ShelvesSpanSurfaceWitness ==
    /\ last.op = "pack"
    /\ Len(sprite.shelves_) = 2
    /\ sprite.width_ < made[1]

\* packOne has returned after growing the surface under an existing shelf
\* and creating another
ShelvesSpanGrownSurfaceWitness ==
    /\ last.op = "packOne" /\ Len(last.sizes) >= 2 /\ Len(last.ret) = 1
    /\ Len(sprite.shelves_) = 2
    /\ sprite.width_ > last.sizes[1][1]

(***************************************************************************)
(* C20  Shelves are append-only and vertically contiguous: between two     *)
(* clear() calls no shelf is removed or reordered and no shelf's y or h    *)
(* changes, and the i-th shelf in creation order has y equal to the sum of *)
(* the heights of the shelves before it.                                   *)
(***************************************************************************)
ShelvesAppendOnlyContiguous ==
    [][/\ last'.op # "clear" =>
             /\ Len(sprite'.shelves_) >= Len(sprite.shelves_)
             /\ \A k \in DOMAIN sprite.shelves_ :
                   /\ sprite'.shelves_[k].y_ = sprite.shelves_[k].y_
                   /\ sprite'.shelves_[k].h_ = sprite.shelves_[k].h_
       /\ \A i \in DOMAIN sprite'.shelves_ :
             /\ sprite'.shelves_[i].h_ > 0
             /\ sprite'.shelves_[i].y_ = SumHeights(SubSeq(sprite'.shelves_, 1, i - 1))]_vars

\* packOne has created a third shelf, below two shelves of different heights
ShelvesAppendOnlyContiguousWitness ==
    /\ last.op = "packOne" /\ Len(last.ret) = 1
    /\ Len(sprite.shelves_) = 3
    /\ sprite.shelves_[1].h_ # sprite.shelves_[2].h_
    /\ last.ret[1].x = 0
    /\ last.ret[1].y = sprite.shelves_[3].y_

(***************************************************************************)
(* C21  The counter for height k is the number of bins of requested height *)
(* k placed, by packOne or pack, since construction or the last clear(): a *)
(* failed packOne and the rounds of an auto-resize add nothing, a          *)
(* successful packOne adds one to one counter; the counters have no        *)
(* influence on the shelf chosen.                                          *)
(***************************************************************************)
\* the counter for height k (a missing key counts as zero)
Counter(sp, k) == IF k \in DOMAIN sp.stats_ THEN sp.stats_[k] ELSE 0

\* what a request does to the caller and to the surface and its shelves
Placement(r) == <<r.ret, r.sp.width_, r.sp.height_, r.sp.shelves_>>

CountersCountPlacements ==
    /\ \A k \in ReqHeights \cup DOMAIN sprite.stats_ :
          Counter(sprite, k) = Cardinality({b \in placed : b.h = k})
    /\ \A w \in ReqWidths, h \in ReqHeights :
          Placement(packOne(sprite, next, -1, w, h))
             = Placement(packOne([sprite EXCEPT !.stats_ = <<>>], next, -1, w, h))

\* packOne has failed on a packer with two bins counted for one height
CountersCountPlacementsWitness ==
    /\ last.op = "packOne" /\ last.ret = <<>>
    /\ \E k \in DOMAIN sprite.stats_ : sprite.stats_[k] = 2
    /\ Cardinality(placed) = 2

\* packOne has placed a bin after two rounds of auto-resize, on a packer with
\* a bin counted before
CountedOnceAfterGrowthWitness ==
    /\ last.op = "packOne" /\ Len(last.ret) = 1 /\ Len(last.sizes) = 3
    /\ Counter(sprite, last.h) = 2

(***************************************************************************)
(* C22  packOne changes width() or height() only when autoResize is set    *)
(* and the request fits neither on an existing shelf nor on a new shelf    *)
(* within the current bounds; without autoResize, or when the request fits *)
(* without growth, packOne leaves width() and height() as they are.        *)
(***************************************************************************)
\* the request w x h fits the packer as it is
FitsWithoutGrowth(sp, w, h) ==
    \/ ExactFits(sp, w, h) # {}
    \/ TallerFits(sp, w, h) # {}
    \/ NewShelfFits(sp, w, h)

PackOneGrowsOnlyWhenNeeded ==
    [][last'.op = "packOne" =>
         /\ (sprite'.width_ # sprite.width_ \/ sprite'.height_ # sprite.height_)
               => (sprite.autoResize_ /\ ~FitsWithoutGrowth(sprite, last'.w, last'.h))
         /\ (~sprite.autoResize_ \/ FitsWithoutGrowth(sprite, last'.w, last'.h))
               => (sprite'.width_ = sprite.width_ /\ sprite'.height_ = sprite.height_)]_vars

\* packOne has grown the surface of a packer that held a shelf, and placed
\* its bin
PackOneGrowsOnlyWhenNeededWitness ==
    /\ last.op = "packOne" /\ Len(last.ret) = 1 /\ Len(last.sizes) >= 2
    /\ sprite.autoResize_
    /\ Len(sprite.shelves_) >= 2
    /\ <<sprite.width_, sprite.height_>> # last.sizes[1]

\* packOne has failed on a packer without autoResize, and left the surface
\* as it was
PackOneFailsWithoutGrowthWitness ==
    /\ last.op = "packOne" /\ last.ret = <<>>
    /\ ~sprite.autoResize_
    /\ last.sizes = << <<sprite.width_, sprite.height_>> >>

(***************************************************************************)
(* C23  In every state reached by packOne, pack, resize and clear calls    *)
(* (requests with w >= 1 and h >= 1, with or without autoResize), any two  *)
(* distinct bins placed since the last clear() occupy disjoint rectangles  *)
(* [x, x+w) x [y, y+h): on one shelf or on different shelves, placed       *)
(* before or after a growth of the surface or the shrink that ends pack.   *)
(***************************************************************************)
\* the rectangles [x, x+w) x [y, y+h) of a and b share a point
Overlap(a, b) ==
    /\ a.x < b.x + b.w /\ b.x < a.x + a.w
    /\ a.y < b.y + b.h /\ b.y < a.y + a.h

\* Every bin a call returns is disjoint from the bins placed before the call
\* and from the other bins of the same call, and so the bins placed since
\* the last clear() are pairwise disjoint after every call.
PlacedBinsDisjoint ==
    [][/\ \A a \in placed', b \in placed' : a # b => ~Overlap(a, b)
       /\ last'.op \in {"packOne", "pack"} =>
             /\ \A i \in DOMAIN last'.ret : \A b \in placed :
                   ~Overlap(last'.ret[i], b)
             /\ \A i \in DOMAIN last'.ret, j \in DOMAIN last'.ret :
                   i # j => ~Overlap(last'.ret[i], last'.ret[j])]_vars

\* three bins on two or more shelves, the last of them placed by a packOne
\* that had to grow the surface
PlacedBinsDisjointWitness ==
    /\ last.op = "packOne" /\ Len(last.ret) = 1 /\ Len(last.sizes) >= 2
    /\ Cardinality(placed) = 3
    /\ Cardinality({b.y : b \in placed}) >= 2
    /\ Cardinality({b.x : b \in placed}) >= 2

\* a bin placed by packOne next to a bin that lies past the surface the call
\* found: the surface had been made smaller after that bin was placed
PlacedAfterShrinkWitness ==
    /\ last.op = "packOne" /\ Len(last.ret) = 1
    /\ \E b \in placed :
          \/ b.x + b.w > last.sizes[1][1]
          \/ b.y + b.h > last.sizes[1][2]

\* pack has placed two bins next to one placed before, and ended with its
\* resize to the bounds of the shelves
PackedBinsDisjointWitness ==
    /\ last.op = "pack" /\ Len(last.ret) = 2
    /\ Cardinality(placed) = 3
    /\ sprite.width_ = MaxUsed(sprite.shelves_)
    /\ sprite.height_ = SumHeights(sprite.shelves_)
====
